---- MODULE Spec2Model ----
(***************************************************************************)
(* A model of the estimate engine of app/app.py: the field parsers, the    *)
(* comparable selector, the recent-sales helper and calculate_estimate.    *)
(*                                                                         *)
(* Conventions.  Text is a sequence of one-character strings.  An optional *)
(* value (Python's None or a value) is the empty sequence or a one-element *)
(* sequence.  Means and products that Python computes in floating point    *)
(* are exact rationals <<n, d>> with d > 0 in lowest terms; parse_price,   *)
(* whose result depends on binary rounding, has its own model of doubles.  *)
(***************************************************************************)
EXTENDS Integers, Sequences, FiniteSets, TLC

\* ------------------------------------------------------------------ bounds

\* The longest dataset the model loads.
MaxRecords == 3

\* The longest dataset of the specification that varies the catalog.
MaxQualityRecords == 2

\* The longest dataset of the recent-sales specification.
MaxSales == 5

\* The digits of the long number given to the parsers.
LongDigits == 310

\* ---------------------------------------------------------- optional values

None == <<>>

Some(v) == <<v>>

IsNone(o) == o = <<>>

Val(o) == o[1]

\* Python truthiness of an optional number: None and 0 are both falsy.
Truthy(o) == o # <<>> /\ o[1] # 0

\* -------------------------------------------------------------- rationals

Abs(n) == IF n < 0 THEN -n ELSE n

RECURSIVE Gcd(_, _)
Gcd(a, b) == IF b = 0 THEN a ELSE Gcd(b, a % b)

Rat(n, d) ==
    LET g == Gcd(Abs(n), d)
    IN  IF n = 0 THEN <<0, 1>> ELSE <<n \div g, d \div g>>

RInt(n) == <<n, 1>>

Lcm(a, b) == (a \div Gcd(a, b)) * b

RAdd(x, y) ==
    LET l == Lcm(x[2], y[2])
    IN  Rat(x[1] * (l \div x[2]) + y[1] * (l \div y[2]), l)

RNeg(x) == <<-x[1], x[2]>>

RSub(x, y) == RAdd(x, RNeg(y))

RMul(x, y) ==
    LET g1 == Gcd(Abs(x[1]), y[2])
        g2 == Gcd(Abs(y[1]), x[2])
        a  == IF x[1] = 0 THEN 0 ELSE x[1] \div g1
        d  == IF x[1] = 0 THEN 1 ELSE y[2] \div g1
        c  == IF y[1] = 0 THEN 0 ELSE y[1] \div g2
        b  == IF y[1] = 0 THEN 1 ELSE x[2] \div g2
    IN  Rat(a * c, b * d)

RLess(x, y) ==
    LET l == Lcm(x[2], y[2])
    IN  x[1] * (l \div x[2]) < y[1] * (l \div y[2])

RLeq(x, y) == x = y \/ RLess(x, y)

RMax(x, y) == IF RLess(x, y) THEN y ELSE x

RECURSIVE SumSeq(_)
SumSeq(s) == IF s = <<>> THEN 0 ELSE Head(s) + SumSeq(Tail(s))

\* statistics.mean of a non-empty list of integers.
mean(s) == Rat(SumSeq(s), Len(s))

RECURSIVE RSumSeq(_)
RSumSeq(s) == IF s = <<>> THEN RInt(0) ELSE RAdd(Head(s), RSumSeq(Tail(s)))

\* statistics.mean of a non-empty list of rationals.
rmean(s) == RMul(RSumSeq(s), <<1, Len(s)>>)

\* ------------------------------------------------------------------- text

UpperChars == <<"A","B","C","D","E","F","G","H","I","J","K","L","M",
                "N","O","P","Q","R","S","T","U","V","W","X","Y","Z">>

LowerChars == <<"a","b","c","d","e","f","g","h","i","j","k","l","m",
                "n","o","p","q","r","s","t","u","v","w","x","y","z">>

\* str.lower on one character: the table of the letters that change.
LowerTable ==
    [c \in {UpperChars[i] : i \in 1..26} |->
        LowerChars[CHOOSE i \in 1..26 : UpperChars[i] = c]]

LowerChar(c) == IF c \in DOMAIN LowerTable THEN LowerTable[c] ELSE c

\* str.lower
lower(s) == [i \in 1..Len(s) |-> LowerChar(s[i])]

\* ------------------------------------------------------- natural numbers
\* A natural number of any size: its base-10000 digits, least significant
\* first, none for 0 and no leading zero.  The recursive operators test their
\* own arguments in a disjunct that is never true: it makes TLC evaluate the
\* arguments before it descends.

Base == 10 ^ 4

\* a without its leading zeros.
BigTrim(a) ==
    LET nonzero == {i \in 1..Len(a) : a[i] # 0}
    IN  IF nonzero = {} THEN <<>>
        ELSE SubSeq(a, 1, CHOOSE i \in nonzero : \A j \in nonzero : j <= i)

\* a * c + carry, for a factor c of at most 10000 and a carry below 10000:
\* digit by digit, a digit taking a carry when a digit below it overflows and
\* those between them are full.
BigMulAdd(a, c, carry) ==
    LET n == Len(a)
        low(i) == IF i <= n THEN (a[i] * c) % Base ELSE 0
        high(i) == IF 1 <= i /\ i <= n THEN (a[i] * c) \div Base ELSE 0
        sum == [i \in 1..(n + 1) |->
                   low(i) + high(i - 1) + (IF i = 1 THEN carry ELSE 0)]
        carried(i) ==
            \E j \in 1..(i - 1) :
                sum[j] >= Base /\ \A k \in (j + 1)..(i - 1) : sum[k] = Base - 1
    IN  BigTrim([i \in 1..(n + 1) |->
                    (sum[i] + (IF carried(i) THEN 1 ELSE 0)) % Base])

\* The number of a machine integer.
BigFromInt(n) == BigTrim(<<n % Base, (n \div Base) % Base, n \div (Base * Base)>>)

BigOdd(a) == a # <<>> /\ a[1] % 2 = 1

\* floor(a / 2)
BigHalf(a) ==
    BigTrim([i \in 1..Len(a) |->
               (a[i] + (IF i < Len(a) /\ a[i + 1] % 2 = 1 THEN Base ELSE 0)) \div 2])

BigLess(a, b) ==
    \/ Len(a) < Len(b)
    \/ /\ Len(a) = Len(b)
       /\ \E i \in 1..Len(a) :
            a[i] < b[i] /\ \A j \in (i + 1)..Len(a) : a[j] = b[j]

RECURSIVE BigDivStep(_, _, _, _, _)
\* The long division by c <= 10000 of the digits a[1..i], below a remainder
\* and the digits of the quotient found above them.
BigDivStep(a, c, i, rem, above) ==
    IF i = 0 \/ rem < 0 \/ Len(above) < 0 THEN [q |-> above, r |-> rem]
    ELSE BigDivStep(a, c, i - 1, (rem * Base + a[i]) % c,
                    <<(rem * Base + a[i]) \div c>> \o above)

\* The quotient and the remainder of a by c.
BigDivMod(a, c) ==
    LET d == BigDivStep(a, c, Len(a), 0, <<>>) IN [q |-> BigTrim(d.q), r |-> d.r]

RECURSIVE BigToInt(_)
BigToInt(a) == IF a = <<>> THEN 0 ELSE Head(a) + Base * BigToInt(Tail(a))

\* The number written by decimal digits, most significant first: four of
\* them make one digit of base 10000.
BigFromDigits(digits) ==
    LET at(k) == IF k < 1 THEN 0 ELSE digits[k]
        n == Len(digits)
    IN  BigTrim([i \in 1..((n + 3) \div 4) |->
                    at(n - 4 * i + 4) + 10 * at(n - 4 * i + 3)
                    + 100 * at(n - 4 * i + 2) + 1000 * at(n - 4 * i + 1)])

\* a * 10^n
BigTimesPow10(a, n) ==
    IF a = <<>> THEN a
    ELSE [i \in 1..(n \div 4) |-> 0] \o BigMulAdd(a, 10 ^ (n % 4), 0)

\* floor(a / 10^n), and whether the division left a remainder.
BigDivPow10(a, n) ==
    LET whole == n \div 4
        dropped == {i \in 1..Len(a) : i <= whole /\ a[i] # 0}
        step == BigDivMod(SubSeq(a, whole + 1, Len(a)), 10 ^ (n % 4))
    IN  [q |-> step.q, inexact |-> dropped # {} \/ step.r # 0]

RECURSIVE BigTimesPow2(_, _)
\* a * 2^n, thirteen doublings at a time while that many are left.
BigTimesPow2(a, n) ==
    IF n <= 0 \/ a = <<>> THEN a
    ELSE IF n >= 13 THEN BigTimesPow2(BigMulAdd(a, 2 ^ 13, 0), n - 13)
    ELSE BigTimesPow2(BigMulAdd(a, 2, 0), n - 1)

\* ------------------------------------------------------------------ doubles
\* A Python float is an IEEE-754 double: nan, an infinity, or a finite value
\* (-1)^neg * m * 2^e with m <= 2^53 (m = 2^53 stands for the next power of
\* two) and e >= -1074.  Rounding is to nearest, ties to even.

Pow2_53 == BigTimesPow2(<<1>>, 53)

Pow2_66 == BigTimesPow2(<<1>>, 66)

MinExponent == 0 - 1074

MaxExponent == 1023 - 52

RECURSIVE RoundToDouble(_, _, _, _)
\* The double nearest to (q + fraction) * 2^e, where guard is the bit last
\* shifted out of q and sticky tells whether anything below it is set.  q is
\* halved until it fits, thirteen times at once while it is far from fitting.
RoundToDouble(q, e, guard, sticky) ==
    IF (e >= MinExponent /\ BigLess(q, Pow2_53))
       \/ {guard, sticky} \notin SUBSET BOOLEAN
    THEN [m |-> IF guard /\ (sticky \/ BigOdd(q)) THEN BigMulAdd(q, 1, 1) ELSE q,
          e |-> e]
    ELSE IF e + 13 < MinExponent \/ ~BigLess(q, Pow2_66)
    THEN LET step == BigDivMod(q, 2 ^ 13)
         IN  RoundToDouble(step.q, e + 13, FALSE, sticky \/ guard \/ step.r # 0)
    ELSE RoundToDouble(BigHalf(q), e + 1, BigOdd(q), sticky \/ guard)

RECURSIVE ScaleUp(_, _, _)
\* a doubled until it reaches the bound: the doubled number and the doublings.
ScaleUp(a, bound, k) ==
    IF k + 0 = k /\ BigLess(BigMulAdd(a, 2 ^ 13, 0), bound)
    THEN ScaleUp(BigMulAdd(a, 2 ^ 13, 0), bound, k + 13)
    ELSE IF BigLess(a, bound) THEN ScaleUp(BigMulAdd(a, 2, 0), bound, k + 1)
    ELSE [a |-> a, k |-> k]

\* The m and e of the double nearest to n / 10^d.
DoubleFromDecimal(n, d) ==
    IF n = <<>> THEN [m |-> <<>>, e |-> 0]
    ELSE LET bound == BigTimesPow2(BigTimesPow10(<<1>>, d), 55)
             up == ScaleUp(n, bound, 0)
             quotient == BigDivPow10(up.a, d)
         IN  RoundToDouble(quotient.q, -up.k, FALSE, quotient.inexact)

Inf(neg) == [kind |-> "inf", neg |-> neg, m |-> <<>>, e |-> 0]

NaN == [kind |-> "nan", neg |-> FALSE, m |-> <<>>, e |-> 0]

\* The float of a rounded m * 2^e: infinite from 2^1024 on.
Finite(neg, x) ==
    IF x.e > MaxExponent \/ (x.e = MaxExponent /\ x.m = Pow2_53) THEN Inf(neg)
    ELSE [kind |-> "finite", neg |-> neg, m |-> x.m, e |-> x.e]

\* x * c, for the integer factors 1, 1000 and 1000000 of parse_price.
DoubleTimes(x, c) ==
    IF x.kind # "finite" THEN x
    ELSE LET product == IF c <= Base THEN BigMulAdd(x.m, c, 0)
                        ELSE BigMulAdd(BigMulAdd(x.m, c \div 1000, 0), 1000, 0)
         IN  Finite(x.neg, RoundToDouble(product, x.e, FALSE, FALSE))

RECURSIVE BigShift(_, _)
\* floor(a * 2^e)
BigShift(a, e) ==
    IF e >= 0 \/ a = <<>> THEN BigTimesPow2(a, e)
    ELSE IF e <= 0 - 13 THEN BigShift(BigDivMod(a, 2 ^ 13).q, e + 13)
    ELSE BigShift(BigHalf(a), e + 1)

\* The integer part of the magnitude of a finite float.
DoubleTrunc(x) == BigShift(x.m, x.e)

\* x < c, for a positive integer c.
DoubleLessInt(x, c) ==
    CASE x.kind = "nan" -> FALSE
      [] x.kind = "inf" -> x.neg
      [] OTHER -> x.neg \/ BigLess(DoubleTrunc(x), BigFromInt(c))

\* An exception, or a returned value.
Raise(e) == [error |-> e, value |-> <<>>]

Result(v) == [error |-> "", value |-> v]

\* int(x): an integer is a sign and a magnitude.
int(x) ==
    CASE x.kind = "nan" -> Raise("ValueError")
      [] x.kind = "inf" -> Raise("OverflowError")
      [] OTHER -> LET mag == DoubleTrunc(x)
                  IN  Result([neg |-> x.neg /\ mag # <<>>, mag |-> mag])

\* ------------------------------------------------------------ str methods

Digits == {"0", "1", "2", "3", "4", "5", "6", "7", "8", "9"}

DigitValue ==
    [c \in Digits |->
        CHOOSE v \in 0..9 : <<"0", "1", "2", "3", "4", "5", "6", "7", "8", "9">>[v + 1] = c]

WhiteSpace == {" ", "\t", "\n", "\r", "\f"}

Lowest(S) == CHOOSE x \in S : \A y \in S : x <= y

Highest(S) == CHOOSE x \in S : \A y \in S : x >= y

\* str.strip(chars): the text between its first and last character not in chars.
strip(s, chars) ==
    LET kept == {i \in 1..Len(s) : s[i] \notin chars}
    IN  IF kept = {} THEN <<>> ELSE SubSeq(s, Lowest(kept), Highest(kept))

RECURSIVE replace(_, _)
\* str.replace(old, ""): every occurrence of old, left to right, removed.
replace(s, old) ==
    LET found == {i \in 1..(Len(s) - Len(old) + 1) : SubSeq(s, i, i + Len(old) - 1) = old}
    IN  IF found = {} THEN s
        ELSE SubSeq(s, 1, Lowest(found) - 1)
             \o replace(SubSeq(s, Lowest(found) + Len(old), Len(s)), old)

\* str.endswith
endswith(s, suffix) ==
    Len(s) >= Len(suffix) /\ SubSeq(s, Len(s) - Len(suffix) + 1, Len(s)) = suffix

\* The number of digits that s holds in a row from position i on.
DigitRun(s, i) ==
    IF i > Len(s) THEN 0
    ELSE LET stops == {j \in i..Len(s) : s[j] \notin Digits}
         IN  IF stops = {} THEN Len(s) - i + 1 ELSE Lowest(stops) - i

\* re.search(r"\d+(?:\.\d+)?", s): the first match, if any.
search_number(s) ==
    LET starts == {i \in 1..Len(s) : s[i] \in Digits}
    IN  IF starts = {} THEN None
        ELSE LET i == Lowest(starts)
                 after == i + DigitRun(s, i)
                 fraction == IF after <= Len(s) /\ s[after] = "."
                             THEN DigitRun(s, after + 1) ELSE 0
             IN  Some(SubSeq(s, i, IF fraction > 0 THEN after + fraction
                                   ELSE after - 1))

\* ------------------------------------------------------------------ float

\* The digits of a text, as numbers.
DigitsOf(s) == [i \in 1..Len(s) |-> DigitValue[s[i]]]

\* The number of zeros a digit sequence starts with.
LeadingZeros(digits) ==
    LET nonzero == {i \in 1..Len(digits) : digits[i] # 0}
    IN  IF nonzero = {} THEN Len(digits) ELSE Lowest(nonzero) - 1

\* The value of an exponent's digits, or 99999 when it has more than five.
ExponentValue(digits) ==
    IF Len(digits) - LeadingZeros(digits) > 5 THEN 99999
    ELSE BigToInt(BigFromDigits(digits))

\* The float written digits * 10^exponent: infinite or zero beyond the range
\* of the doubles (1.8e308 down to 4.9e-324), else the nearest double.
DecimalToDouble(neg, digits, exponent) ==
    IF LeadingZeros(digits) = Len(digits)
       \/ Len(digits) - LeadingZeros(digits) + exponent < 0 - 330
    THEN [kind |-> "finite", neg |-> neg, m |-> <<>>, e |-> 0]
    ELSE IF Len(digits) - LeadingZeros(digits) + exponent > 309 THEN Inf(neg)
    ELSE Finite(neg, DoubleFromDecimal(
                         BigTimesPow10(BigFromDigits(digits),
                                       IF exponent >= 0 THEN exponent ELSE 0),
                         IF exponent >= 0 THEN 0 ELSE 0 - exponent))

\* The decimal number that body writes with ints digits before the point,
\* fracs digits after it and, from exponentStart on, exponentDigits digits of
\* an exponent (none without one): a ValueError unless it has a digit, an
\* exponent with a digit if any, and nothing after them.
float_decimal(neg, body, ints, fracs, exponentStart, exponentDigits) ==
    IF \/ ints + fracs < 1
       \/ exponentStart > 0 /\ exponentDigits < 1
       \/ exponentStart > 0 /\ exponentStart + exponentDigits - 1 # Len(body)
    THEN Raise("ValueError")
    ELSE Result(DecimalToDouble(
             neg,
             DigitsOf(SubSeq(body, 1, ints) \o SubSeq(body, ints + 2, ints + 1 + fracs)),
             (IF exponentStart = 0 THEN 0
              ELSE IF body[exponentStart - 1] = "-"
              THEN 0 - ExponentValue(DigitsOf(SubSeq(body, exponentStart, Len(body))))
              ELSE ExponentValue(DigitsOf(SubSeq(body, exponentStart, Len(body)))))
             - fracs))

\* The exponent after a mantissa that ends at mantissaEnd: "e" or "E", a sign
\* if any, and digits.  Without the letter the mantissa has to end the text.
float_exponent(neg, body, ints, fracs, mantissaEnd, exponentStart) ==
    IF mantissaEnd = Len(body) THEN float_decimal(neg, body, ints, fracs, 0, 0)
    ELSE IF body[mantissaEnd + 1] \notin {"e", "E"} THEN Raise("ValueError")
    ELSE float_decimal(neg, body, ints, fracs, exponentStart,
                       DigitRun(body, exponentStart))

\* The mantissa: ints digits, then a point and fracs digits if dot.
float_mantissa(neg, body, ints, dot, fracs) ==
    float_exponent(neg, body, ints, fracs, ints + (IF dot THEN 1 + fracs ELSE 0),
                   ints + (IF dot THEN 1 + fracs ELSE 0) + 2
                   + (IF ints + (IF dot THEN 1 + fracs ELSE 0) + 1 < Len(body)
                         /\ body[ints + (IF dot THEN 1 + fracs ELSE 0) + 2] \in {"+", "-"}
                      THEN 1 ELSE 0))

\* The text after the sign: "inf", "infinity", "nan" in any case, or a
\* decimal number.
float_unsigned(neg, body, ints) ==
    IF lower(body) \in { <<"i", "n", "f">>,
                         <<"i", "n", "f", "i", "n", "i", "t", "y">> }
    THEN Result(Inf(neg))
    ELSE IF lower(body) = <<"n", "a", "n">> THEN Result(NaN)
    ELSE float_mantissa(neg, body, ints,
                        ints < Len(body) /\ body[ints + 1] = ".",
                        IF ints < Len(body) /\ body[ints + 1] = "."
                        THEN DigitRun(body, ints + 2) ELSE 0)

NotUnderscore(c) == c # "_"

\* The text without its underscores, after a sign if any.
float_signed(text) ==
    float_unsigned(text # <<>> /\ text[1] = "-",
                   IF text # <<>> /\ text[1] \in {"+", "-"} THEN Tail(text) ELSE text,
                   DigitRun(IF text # <<>> /\ text[1] \in {"+", "-"}
                            THEN Tail(text) ELSE text, 1))

\* An underscore is allowed between two digits only.
float_stripped(stripped) ==
    IF \E i \in 1..Len(stripped) :
           /\ stripped[i] = "_"
           /\ ~(/\ 1 < i /\ i < Len(stripped)
                /\ stripped[i - 1] \in Digits /\ stripped[i + 1] \in Digits)
    THEN Raise("ValueError")
    ELSE float_signed(SelectSeq(stripped, NotUnderscore))

\* float(text): surrounding whitespace and underscores between digits are
\* dropped; then a sign, and "inf", "infinity", "nan" in any case or a decimal
\* number with an optional exponent.  Anything else raises ValueError.
float(value) == float_stripped(strip(value, WhiteSpace))

\* ---------------------------------------------------------------- parsers
\* A token is None or Some(text); a parser returns Result(None), Result(Some(v))
\* or the exception that leaves it.

\* "try: return ... except ValueError: return None" around a computation r.
except_ValueError(r) ==
    IF r.error = "ValueError" THEN Result(None)
    ELSE IF r.error # "" THEN r
    ELSE Result(Some(r.value))

\* int(x) of a float that may have raised.
int_of(x) == IF x.error # "" THEN x ELSE int(x.value)

parse_int(value) ==
    IF value = None \/ Val(value) = <<>> THEN Result(None)
    ELSE except_ValueError(int_of(float(Val(value))))

parse_float(value) ==
    IF value = None \/ Val(value) = <<>> THEN Result(None)
    ELSE except_ValueError(float(Val(value)))

NoiseWords ==
    << <<"a", "u", "c", "t", "i", "o", "n">>,
       <<"g", "u", "i", "d", "e">>,
       <<"p", "r", "i", "o", "r">>,
       <<"o", "f", "f", "e", "r", "s">>,
       <<"a", "u", "c", "t", "i", "o", "n">>,
       <<"t", "b", "a">> >>

RECURSIVE replace_each(_, _)
\* The replacements of the words, one after the other.
replace_each(s, words) ==
    IF words = <<>> \/ Len(s) < 0 THEN s
    ELSE replace_each(replace(s, Head(words)), Tail(words))

\* The suffix that parse_price takes off the cleaned text: "m" is tried
\* before "mil" and "k".
price_suffix(cleaned) ==
    IF endswith(cleaned, <<"m">>) THEN <<"m">>
    ELSE IF endswith(cleaned, <<"m", "i", "l">>) THEN <<"m", "i", "l">>
    ELSE IF endswith(cleaned, <<"k">>) THEN <<"k">>
    ELSE <<>>

\* numeric_value after the heuristics for a text without a suffix.
numeric_value(x, multiplier) ==
    IF multiplier # 1 THEN x
    ELSE IF DoubleLessInt(x, 10) THEN DoubleTimes(x, 1000000)
    ELSE IF DoubleLessInt(x, 10000) THEN DoubleTimes(x, 1000)
    ELSE x

\* int(numeric_value * multiplier) of the float of the match.
price_of_float(parsed, multiplier) ==
    IF parsed.error # "" THEN parsed
    ELSE int(DoubleTimes(numeric_value(parsed.value, multiplier), multiplier))

price_of_match(match, multiplier) ==
    IF match = None THEN Result(None)
    ELSE except_ValueError(price_of_float(float(Val(match)), multiplier))

price_of_cleaned(cleaned, suffix) ==
    IF cleaned = <<>> THEN Result(None)
    ELSE price_of_match(
             search_number(strip(strip(SubSeq(cleaned, 1, Len(cleaned) - Len(suffix)),
                                       {"+"}),
                                 WhiteSpace)),
             IF suffix = <<>> THEN 1 ELSE IF suffix = <<"k">> THEN 1000 ELSE 1000000)

price_of_plain(cleaned) == price_of_cleaned(cleaned, price_suffix(cleaned))

parse_price(value) ==
    IF value = None \/ Val(value) = <<>> THEN Result(None)
    ELSE price_of_plain(
             strip(replace_each(replace(replace(lower(strip(Val(value), WhiteSpace)),
                                                <<"$">>),
                                        <<",">>),
                                NoiseWords),
                   WhiteSpace))

land_size_of_match(match) ==
    IF match = None THEN Result(None) ELSE except_ValueError(float(Val(match)))

parse_land_size(value) ==
    IF value = None \/ Val(value) = <<>> THEN Result(None)
    ELSE land_size_of_match(search_number(replace(lower(Val(value)), <<",">>)))

\* ------------------------------------------------------------- parse_date

RECURSIVE Split(_, _)
\* str.split(sep) for a separator of one character.
Split(s, sep) ==
    LET cuts == {i \in 1..Len(s) : s[i] = sep}
    IN  IF cuts = {} THEN <<s>>
        ELSE <<SubSeq(s, 1, Lowest(cuts) - 1)>>
             \o Split(SubSeq(s, Lowest(cuts) + 1, Len(s)), sep)

\* The number a text of digits writes, for the few digits of a date field.
Number(s) == BigToInt(BigFromDigits(DigitsOf(s)))

AllDigits(s) == \A i \in 1..Len(s) : s[i] \in Digits

\* %b: the month whose abbreviated name the field is, in any case.
MonthNames ==
    << <<"j", "a", "n">>, <<"f", "e", "b">>, <<"m", "a", "r">>, <<"a", "p", "r">>,
       <<"m", "a", "y">>, <<"j", "u", "n">>, <<"j", "u", "l">>, <<"a", "u", "g">>,
       <<"s", "e", "p">>, <<"o", "c", "t">>, <<"n", "o", "v">>, <<"d", "e", "c">> >>

\* The value of a field under a strptime directive, or None when the field does
\* not match it: %Y is four digits, %y two (00-68 in 2000, 69-99 in 1900), %m
\* 1-12 and %d 1-31 with an optional leading zero (%d also a leading space).
Directive(code, field) ==
    CASE code = "Y" ->
           IF Len(field) = 4 /\ AllDigits(field) THEN Some(Number(field)) ELSE None
      [] code = "y" ->
           IF Len(field) = 2 /\ AllDigits(field)
           THEN Some(IF Number(field) < 69 THEN 2000 + Number(field)
                     ELSE 1900 + Number(field))
           ELSE None
      [] code = "m" ->
           IF Len(field) \in {1, 2} /\ AllDigits(field) /\ Number(field) \in 1..12
           THEN Some(Number(field)) ELSE None
      [] code = "d" ->
           IF Len(field) \in {1, 2} /\ AllDigits(field) /\ Number(field) \in 1..31
           THEN Some(Number(field))
           ELSE IF Len(field) = 2 /\ field[1] = " " /\ field[2] \in Digits \ {"0"}
           THEN Some(Number(<<field[2]>>))
           ELSE None
      [] code = "b" ->
           LET found == {i \in 1..12 : MonthNames[i] = lower(field)}
           IN  IF found = {} THEN None ELSE Some(Lowest(found))

DaysInMonth(year, month) ==
    IF month = 2
    THEN IF year % 4 = 0 /\ (year % 100 # 0 \/ year % 400 = 0) THEN 29 ELSE 28
    ELSE IF month \in {4, 6, 9, 11} THEN 30 ELSE 31

\* The formats tried, in order: the separator and the directives of the fields.
DateFormats ==
    << [sep |-> "-", fields |-> <<"Y", "m", "d">>],
       [sep |-> "/", fields |-> <<"d", "m", "Y">>],
       [sep |-> "-", fields |-> <<"d", "m", "Y">>],
       [sep |-> "-", fields |-> <<"d", "b", "y">>],
       [sep |-> "-", fields |-> <<"d", "b", "Y">>] >>

\* The date of the three values, or None when there is no such day.
date_of(year, month, day) ==
    IF year < 1 \/ day > DaysInMonth(year, month) THEN None
    ELSE Some([year |-> year, month |-> month, day |-> day])

\* The date of the values of the three fields, None when one did not match.
date_of_values(values, fmt) ==
    IF \E i \in 1..3 : values[i] = None THEN None
    ELSE date_of(Val(values[CHOOSE i \in 1..3 : fmt.fields[i] \in {"Y", "y"}]),
                 Val(values[CHOOSE i \in 1..3 : fmt.fields[i] \in {"m", "b"}]),
                 Val(values[CHOOSE i \in 1..3 : fmt.fields[i] = "d"]))

date_of_fields(fields, fmt) ==
    IF Len(fields) # 3 THEN None
    ELSE date_of_values([i \in 1..3 |-> Directive(fmt.fields[i], fields[i])], fmt)

\* datetime.strptime(text, fmt): the date, or None for its ValueError.
strptime(text, fmt) == date_of_fields(Split(text, fmt.sep), fmt)

\* The first date in the order of the formats, if any.
first_parsed(dates) ==
    IF \A i \in 1..Len(dates) : dates[i] = None THEN Result(None)
    ELSE Result(dates[Lowest({i \in 1..Len(dates) : dates[i] # None})])

parse_date(value) ==
    IF value = None \/ Val(value) = <<>> THEN Result(None)
    ELSE first_parsed([i \in 1..Len(DateFormats) |->
                          strptime(strip(Val(value), WhiteSpace), DateFormats[i])])

\* --------------------------------------------------------------- catalogs

\* QUALITY_LEVELS: identifier and multiplier (0.90, 1.00, 1.05, 1.12).
QUALITY_LEVELS ==
    << [id |-> "original_poor",     multiplier |-> Rat(90, 100)],
       [id |-> "original_sound",    multiplier |-> Rat(100, 100)],
       [id |-> "updated",           multiplier |-> Rat(105, 100)],
       [id |-> "renovated_premium", multiplier |-> Rat(112, 100)] >>

\* FEATURE_OPTIONS: identifier and flat adjustment.
FEATURE_OPTIONS ==
    << [id |-> "pool",           adjustment |-> 35000],
       [id |-> "tennis",         adjustment |-> 45000],
       [id |-> "solar",          adjustment |-> 12000],
       [id |-> "batteries",      adjustment |-> 18000],
       [id |-> "ducted_ac",      adjustment |-> 8000],
       [id |-> "split_ac",       adjustment |-> 4000],
       [id |-> "double_glazing", adjustment |-> 9000],
       [id |-> "water_tank",     adjustment |-> 3000] >>

\* A dict built from a list of entries: the entry's field under each id.
InCatalog(catalog, id) == \E i \in 1..Len(catalog) : catalog[i].id = id

Entry(catalog, id) ==
    catalog[CHOOSE i \in 1..Len(catalog) :
                catalog[i].id = id
                /\ \A j \in (i+1)..Len(catalog) : catalog[j].id # id]

\* ---------------------------------------------------------------- records

average_price(records) ==
    LET keep(r) == Truthy(r.price)
        kept == SelectSeq(records, keep)
        prices == [i \in 1..Len(kept) |-> Val(kept[i].price)]
    IN  IF prices = <<>> THEN None ELSE Some(mean(prices))

average_land(records) ==
    LET keep(r) == Truthy(r.land_size)
        kept == SelectSeq(records, keep)
        land_values == [i \in 1..Len(kept) |-> Val(kept[i].land_size)]
    IN  IF land_values = <<>> THEN None ELSE Some(mean(land_values))

\* A variant without the fallback to the suburb's records: what C4's formula
\* must tell from select_comparables.
select_comparables_no_fallback(records, suburb, bedrooms) ==
    LET inSuburb(r) == lower(r.suburb) = lower(suburb) /\ Truthy(r.price)
        suburb_records == SelectSeq(records, inSuburb)
        sameBeds(r) == r.bedrooms = bedrooms
    IN  IF bedrooms # None THEN SelectSeq(suburb_records, sameBeds)
        ELSE suburb_records

select_comparables(records, suburb, bedrooms) ==
    LET inSuburb(r) == lower(r.suburb) = lower(suburb) /\ Truthy(r.price)
        suburb_records == SelectSeq(records, inSuburb)
        sameBeds(r) == r.bedrooms = bedrooms
        exact == SelectSeq(suburb_records, sameBeds)
    IN  IF bedrooms # None /\ exact # <<>> THEN exact ELSE suburb_records

\* -------------------------------------------------------- calculate_estimate

\* comparables = select_comparables(...) if suburb else []
comparables_of(all_records, q) ==
    IF q.suburb # <<>>
    THEN select_comparables(all_records, q.suburb, q.bedrooms)
    ELSE <<>>

\* A variant without the fallback to the whole dataset: what C9's formula must
\* tell from base_price.
base_price_no_fallback(all_records, comparables) ==
    LET first == average_price(comparables)
    IN  IF first = None THEN RInt(0) ELSE Val(first)

\* average_price(comparables) or average_price(all_records), 0 when None.
base_price(all_records, comparables) ==
    LET first == average_price(comparables)
        chosen == IF first # None /\ Val(first) # RInt(0)
                  THEN first ELSE average_price(all_records)
    IN  IF chosen = None THEN RInt(0) ELSE Val(chosen)

\* The mean of the multipliers of the choices found in the catalog, else 1.0.
quality_multiplier(levels, quality_choices) ==
    LET known(c) == InCatalog(levels, c.level)
        matched == SelectSeq(quality_choices, known)
        selected_multipliers ==
            [i \in 1..Len(matched) |-> Entry(levels, matched[i].level).multiplier]
    IN  IF selected_multipliers # <<>> THEN rmean(selected_multipliers)
        ELSE RInt(1)

feature_bonus(selected_features) ==
    SumSeq([i \in 1..Len(selected_features) |->
              IF InCatalog(FEATURE_OPTIONS, selected_features[i])
              THEN Entry(FEATURE_OPTIONS, selected_features[i]).adjustment
              ELSE 0])

land_adjustment(comparables, land_size) ==
    IF Truthy(land_size)
    THEN LET comparable_land_avg == average_land(comparables)
         IN  IF comparable_land_avg # None /\ Val(comparable_land_avg) # RInt(0)
             THEN RMul(RSub(RInt(Val(land_size)), Val(comparable_land_avg)),
                       RInt(180))
             ELSE RInt(0)
    ELSE RInt(0)

\* A bonus, or the exception that statistics.mean raises on an empty list.
Bonus(v) == [error |-> "", value |-> v]

StatisticsError == [error |-> "StatisticsError", value |-> RInt(0)]

bathroom_bonus(comparables, bathrooms) ==
    IF bathrooms = None THEN Bonus(RInt(0))
    ELSE LET has(r) == r.bathrooms # None
             kept == SelectSeq(comparables, has)
             counts == [i \in 1..Len(kept) |-> Val(kept[i].bathrooms)]
         IN  IF comparables = <<>> THEN Bonus(RInt(0))
             ELSE IF counts = <<>> THEN StatisticsError
             ELSE IF RLess(mean(counts), RInt(Val(bathrooms)))
             THEN Bonus(RMul(RSub(RInt(Val(bathrooms)), mean(counts)), RInt(8000)))
             ELSE Bonus(RInt(0))

parking_bonus(comparables, parking) ==
    IF parking = None THEN Bonus(RInt(0))
    ELSE LET has(r) == r.parking # None
             kept == SelectSeq(comparables, has)
             counts == [i \in 1..Len(kept) |-> Val(kept[i].parking)]
         IN  IF comparables = <<>> THEN Bonus(RInt(0))
             ELSE IF counts = <<>> THEN StatisticsError
             ELSE IF RLess(mean(counts), RInt(Val(parking)))
             THEN Bonus(RMul(RSub(RInt(Val(parking)), mean(counts)), RInt(6000)))
             ELSE Bonus(RInt(0))

\* A variant with the first step at < 5 instead of <= 5: what C10's formula
\* must tell from age_adjustment.
age_adjustment_strict(building_age) ==
    IF building_age = None THEN 0
    ELSE IF Val(building_age) < 5 THEN 25000
    ELSE IF Val(building_age) <= 15 THEN 12000
    ELSE IF Val(building_age) >= 40 THEN -18000
    ELSE IF Val(building_age) >= 25 THEN -9000
    ELSE 0

age_adjustment(building_age) ==
    IF building_age = None THEN 0
    ELSE IF Val(building_age) <= 5 THEN 25000
    ELSE IF Val(building_age) <= 15 THEN 12000
    ELSE IF Val(building_age) >= 40 THEN -18000
    ELSE IF Val(building_age) >= 25 THEN -9000
    ELSE 0

\* The sum before the floor.
estimate_sum(base, multiplier, features, land, bath, park, age) ==
    RAdd(RAdd(RAdd(RAdd(RAdd(RMul(base, multiplier), RInt(features)), land),
                   bath), park), RInt(age))

\* A variant that makes the sum non-negative by its absolute value: what C5's
\* formula must tell from estimate_floor.
estimate_floor_abs(total) == IF RLess(total, RInt(0)) THEN RNeg(total) ELSE total

\* A variant without the floor: what C3's formula must tell from
\* estimate_floor.
estimate_floor_missing(total) == total

\* estimate_value = max(0, estimate_value)
estimate_floor(total) == RMax(RInt(0), total)

Line(label, value) == [label |-> label, value |-> value]

\* The three lines always reported, then one line per non-zero adjustment.
breakdown_of(base, multiplier, features, land, bath, park, age) ==
    << Line("Comparable sales baseline", base),
       Line("Quality multiplier", multiplier),
       Line("Feature adjustments", RInt(features)) >>
    \o (IF land # RInt(0) THEN <<Line("Land size adjustment", land)>> ELSE <<>>)
    \o (IF bath # RInt(0) THEN <<Line("Bathroom count adjustment", bath)>> ELSE <<>>)
    \o (IF park # RInt(0) THEN <<Line("Parking adjustment", park)>> ELSE <<>>)
    \o (IF age # 0 THEN <<Line("Building age adjustment", RInt(age))>> ELSE <<>>)

\* What a call leaves when an exception leaves it.
Raised(e) == [error |-> e, estimate |-> RInt(0), breakdown |-> <<>>,
              comparables |-> <<>>]

\* calculate_estimate, with the catalog QUALITY_LEVELS as the parameter levels.
calculate_estimate(levels, all_records, q) ==
    LET comparables == comparables_of(all_records, q)
        base == base_price(all_records, comparables)
        multiplier == quality_multiplier(levels, q.quality_choices)
        features == feature_bonus(q.selected_features)
        land == land_adjustment(comparables, q.land_size)
        bath == bathroom_bonus(comparables, q.bathrooms)
        park == parking_bonus(comparables, q.parking)
        age == age_adjustment(q.building_age)
    IN  IF bath.error # "" THEN Raised(bath.error)
        ELSE IF park.error # "" THEN Raised(park.error)
        ELSE [error |-> "",
              estimate |-> estimate_floor(estimate_sum(base, multiplier, features,
                               land, bath.value, park.value, age)),
              breakdown |-> breakdown_of(base, multiplier, features, land,
                               bath.value, park.value, age),
              comparables |-> comparables]

\* -------------------------------------------------------- find_recent_sales

\* The sort key: r.date or datetime.min.  A date is its number of days after
\* datetime.min, so datetime.min itself is 0.
DateKey(r) == IF r.date = None THEN 0 ELSE Val(r.date)

\* list.sort(key=..., reverse=True) is stable: records with equal keys keep
\* their order.
RECURSIVE InsertDescending(_, _)
InsertDescending(sorted, r) ==
    IF sorted = <<>> THEN <<r>>
    ELSE IF DateKey(Head(sorted)) >= DateKey(r)
    THEN <<Head(sorted)>> \o InsertDescending(Tail(sorted), r)
    ELSE <<r>> \o sorted

RECURSIVE SortDescending(_)
SortDescending(s) ==
    IF s = <<>> THEN <<>>
    ELSE InsertDescending(SortDescending(SubSeq(s, 1, Len(s) - 1)), s[Len(s)])

\* The slice s[:limit], for a limit of either sign.
SliceTo(s, limit) ==
    IF limit >= 0
    THEN SubSeq(s, 1, IF limit < Len(s) THEN limit ELSE Len(s))
    ELSE SubSeq(s, 1, IF Len(s) + limit > 0 THEN Len(s) + limit ELSE 0)

\* A variant that sorts ascending (reverse=True left out): what C8's formula
\* must tell from find_recent_sales.
find_recent_sales_ascending(records, suburb, limit) ==
    LET inSuburb(r) == lower(r.suburb) = lower(suburb) /\ Truthy(r.price)
        suburb_records == SelectSeq(records, inSuburb)
        sorted == SortDescending(suburb_records)
    IN  SliceTo([i \in 1..Len(sorted) |-> sorted[Len(sorted) + 1 - i]], limit)

find_recent_sales(records, suburb, limit) ==
    LET inSuburb(r) == lower(r.suburb) = lower(suburb) /\ Truthy(r.price)
        suburb_records == SelectSeq(records, inSuburb)
    IN  SliceTo(SortDescending(suburb_records), limit)

\* ------------------------------------------------------------------ inputs

Kippax == <<"K","i","p","p","a","x">>

KIPPAX == <<"K","I","P","P","A","X">>

kippax == <<"k","i","p","p","a","x">>

Holt == <<"H","o","l","t">>

PropertyRecord(address, suburb, bedrooms, bathrooms, parking, price, land_size, date) ==
    [address |-> address, suburb |-> suburb, bedrooms |-> bedrooms,
     bathrooms |-> bathrooms, parking |-> parking, price |-> price,
     land_size |-> land_size, date |-> date]

\* The rows a dataset of the estimate model is made of: priced, unpriced and
\* zero-priced sales, with and without bathroom, parking and land figures.
EstimatePool ==
    { PropertyRecord("1 Moyes Cres", Kippax, Some(3), Some(1), Some(1), Some(600000), Some(500), Some(10)),
      PropertyRecord("2 Hardwick Cres", KIPPAX, Some(3), None, None, Some(650000), None, None),
      PropertyRecord("3 Luke St", Kippax, Some(3), Some(2), Some(2), Some(700000), Some(700), Some(20)),
      PropertyRecord("4 Starke St", Kippax, Some(4), Some(3), Some(0), Some(820000), Some(5000), Some(30)),
      PropertyRecord("5 Flack St", Kippax, Some(3), Some(1), Some(1), None, Some(400), Some(40)),
      PropertyRecord("6 Beaurepaire Cres", Holt, Some(4), Some(1), Some(1), Some(0), Some(600), Some(50)) }

\* The rows a dataset of the recent-sales model is made of: five dated sales
\* in one suburb, an undated one, an unpriced one, a zero-priced one, and one elsewhere.
SalesPool ==
    { PropertyRecord("1 Moyes Cres", Kippax, Some(3), Some(1), Some(1), Some(600000), Some(500), Some(10)),
      PropertyRecord("2 Hardwick Cres", KIPPAX, Some(3), None, None, Some(650000), None, Some(20)),
      PropertyRecord("3 Luke St", Kippax, Some(3), Some(2), Some(2), Some(700000), Some(700), Some(30)),
      PropertyRecord("4 Starke St", Kippax, Some(4), Some(3), Some(0), Some(820000), Some(5000), Some(40)),
      PropertyRecord("7 Trickett St", Kippax, Some(2), Some(1), Some(1), Some(540000), Some(450), Some(50)),
      PropertyRecord("8 Southern Cross Dr", Kippax, Some(3), Some(1), Some(2), Some(610000), Some(520), None),
      PropertyRecord("5 Flack St", Kippax, Some(3), Some(1), Some(1), None, Some(400), Some(60)),
      PropertyRecord("6 Beaurepaire Cres", Kippax, Some(4), Some(1), Some(1), Some(0), Some(600), Some(80)),
      PropertyRecord("9 Messenger St", Holt, Some(4), Some(2), Some(2), Some(720000), Some(800), Some(70)) }

QualityChoices ==
    { <<>>,
      << [section |-> "kitchen", level |-> "updated"] >>,
      << [section |-> "kitchen", level |-> "original_poor"],
         [section |-> "bathrooms", level |-> "renovated_premium"] >>,
      << [section |-> "kitchen", level |-> "luxury"],
         [section |-> "energy", level |-> "original_poor"] >> }

FeatureChoices == { <<>>, <<"pool", "solar", "helipad">> }

EstimateQuery(suburb, bedrooms, bathrooms, parking, land_size, building_age, quality_choices, selected_features) ==
    [suburb |-> suburb, bedrooms |-> bedrooms, bathrooms |-> bathrooms,
     parking |-> parking, land_size |-> land_size,
     building_age |-> building_age, quality_choices |-> quality_choices,
     selected_features |-> selected_features]

\* Every combination of present and absent query fields.
MainQueries ==
    { EstimateQuery(su, be, ba, pa, la, None, qc, <<>>) :
        su \in {<<>>, kippax, Holt}, be \in {None, Some(3), Some(4)},
        ba \in {None, Some(2)}, pa \in {None, Some(2)},
        la \in {None, Some(100)}, qc \in QualityChoices }

\* Every step of the age table, with and without features.
AgeQueries ==
    { EstimateQuery(kippax, Some(3), None, None, None, ag, <<>>, fe) :
        ag \in {None} \cup {Some(a) : a \in {0, 3, 5, 6, 15, 16, 24, 25, 39, 40, 41}},
        fe \in FeatureChoices }

Queries == MainQueries \cup AgeQueries

\* ----------------------------------------------------------- parser inputs

\* A text of LongDigits nines: a number beyond the range of the doubles.
LongNumber == [i \in 1..LongDigits |-> "9"]

\* The tokens given to parse_int and parse_float: missing, empty, malformed,
\* plain, signed, padded, and the texts float() reads as infinite or nan.
NumberTokens ==
    { None,
      Some(<<>>),
      Some(<<"a", "b", "c">>),
      Some(<<"3">>),
      Some(<<"1", "2">>),
      Some(<<"3", ".", "7">>),
      Some(<<"-", "3", ".", "7">>),
      Some(<<" ", "4", "2", " ">>),
      Some(<<"1", "_", "0", "0", "0">>),
      Some(<<"1", "e", "3">>),
      Some(<<"i", "n", "f">>),
      Some(<<"-", "i", "n", "f">>),
      Some(<<"I", "n", "f", "i", "n", "i", "t", "y">>),
      Some(<<"n", "a", "n">>),
      Some(<<"1", "e", "9", "9", "9">>),
      Some(<<".", "5">>),
      Some(<<"5", ".">>),
      Some(<<"1", "e">>),
      Some(<<"0", "x", "1", "0">>),
      Some(<<"1", ",", "0", "0", "0">>),
      Some(LongNumber) }

\* The parts a price string is made of: what stands before the number, the
\* number, the unit suffix, and what follows.
PricePrefixes ==
    { <<>>,
      <<"$">>,
      <<"o", "f", "f", "e", "r", "s", " ", "o", "v", "e", "r", " ", "$">>,
      <<"G", "u", "i", "d", "e", " ">> }

PriceNumbers ==
    { <<"5">>,
      <<"1", ".", "2">>,
      <<"1", ".", "0", "0", "5">>,
      <<"1", "6", ".", "0", "6">>,
      <<"8", "5", "0">>,
      <<"2", ",", "5", "0", "0">>,
      <<"1", "2", ",", "0", "0", "0">>,
      <<"1", ",", "2", "5", "0", ",", "0", "0", "0">> }

PriceSuffixes ==
    { <<>>,
      <<"k">>,
      <<"m">>,
      <<"m", "i", "l">> }

PriceTrailers ==
    { <<>>,
      <<" ">>,
      <<"+">> }

PriceParts ==
    [prefix : PricePrefixes, number : PriceNumbers, suffix : PriceSuffixes,
     trailer : PriceTrailers]

PriceText(p) == p.prefix \o p.number \o p.suffix \o p.trailer

\* The price tokens that hold no number.
NoNumberTokens ==
    { None,
      Some(<<>>),
      Some(<<"A", "u", "c", "t", "i", "o", "n">>),
      Some(<<"T", "B", "A">>),
      Some(<<"C", "o", "n", "t", "a", "c", "t", " ", "a", "g", "e", "n", "t">>) }

\* Further price tokens: zero, a sign, an exponent, capitals, a long number.
OtherPriceTokens ==
    { Some(<<"0">>),
      Some(<<"-", "3", ".", "7">>),
      Some(<<"1", "e", "9", "9", "9">>),
      Some(<<"8", "5", "0", "K">>),
      Some(<<"$", "1", ".", "2", "M">>),
      Some(LongNumber) }

LandTokens ==
    { None,
      Some(<<>>),
      Some(<<"6", "5", "0">>),
      Some(<<"1", ",", "0", "1", "2">>),
      Some(<<"6", "5", "0", "m", "2">>),
      Some(<<"n", "/", "a">>),
      Some(<<"6", "5", "0", ".", "5", " ", "s", "q", "m">>),
      Some(LongNumber) }

DateTokens ==
    { None,
      Some(<<>>),
      Some(<<"2", "0", "2", "3", "-", "0", "5", "-", "1", "7">>),
      Some(<<"1", "7", "/", "0", "5", "/", "2", "0", "2", "3">>),
      Some(<<"1", "7", "-", "0", "5", "-", "2", "0", "2", "3">>),
      Some(<<"1", "7", "-", "M", "a", "y", "-", "2", "3">>),
      Some(<<"1", "7", "-", "M", "a", "y", "-", "2", "0", "2", "3">>),
      Some(<<" ", "2", "0", "2", "3", "-", "0", "5", "-", "1", "7", " ">>),
      Some(<<"1", "/", "2", "/", "2", "0", "2", "3">>),
      Some(<<"2", "9", "/", "0", "2", "/", "2", "0", "2", "4">>),
      Some(<<"2", "9", "/", "0", "2", "/", "2", "0", "2", "3">>),
      Some(<<"3", "1", "/", "0", "4", "/", "2", "0", "2", "3">>),
      Some(<<"2", "0", "2", "3", "-", "1", "3", "-", "0", "1">>),
      Some(<<"1", "7", "-", "m", "a", "y", "-", "6", "9">>),
      Some(<<"1", "7", "/", "0", "5", "/", "2", "3">>),
      Some(<<"y", "e", "s", "t", "e", "r", "d", "a", "y">>) }

\* ------------------------------------------------------------ state machine

VARIABLES
    all_records,   \* the dataset, in file order
    request,       \* the last call and its arguments
    response       \* what that call returned or raised

vars == <<all_records, request, response>>

NoCall == [op |-> "none"]

Init ==
    /\ all_records = <<>>
    /\ request = NoCall
    /\ response = NoCall

Loaded(r) == \E i \in 1..Len(all_records) : all_records[i] = r

\* load_property_records appends one row's record; the rows are loaded before
\* any call is served.
LoadRecord(pool, max) ==
    /\ request = NoCall
    /\ Len(all_records) < max
    /\ \E r \in pool :
         /\ ~Loaded(r)
         /\ all_records' = Append(all_records, r)
    /\ UNCHANGED <<request, response>>

\* One call of calculate_estimate on the loaded dataset.  A call reads the
\* dataset and writes nothing a later call reads, so a behaviour follows one
\* call.
Estimate ==
    /\ request = NoCall
    /\ \E q \in Queries :
         /\ request' = [op |-> "estimate", query |-> q]
         /\ response' = calculate_estimate(QUALITY_LEVELS, all_records, q)
    /\ UNCHANGED all_records

\* One call of select_comparables on the loaded dataset.
SelectComparables ==
    /\ request = NoCall
    /\ \E su \in {<<>>, kippax, Holt}, be \in {None, Some(3), Some(4)} :
         /\ request' = [op |-> "select", suburb |-> su, bedrooms |-> be]
         /\ response' = select_comparables(all_records, su, be)
    /\ UNCHANGED all_records

Next ==
    \/ LoadRecord(EstimatePool, MaxRecords)
    \/ Estimate
    \/ SelectComparables

Spec == Init /\ [][Next]_vars

\* One call of find_recent_sales on the loaded dataset.
RecentSales ==
    /\ request = NoCall
    /\ \E su \in {kippax, Holt}, limit \in {0, 3, 5} :
         /\ request' = [op |-> "recent", suburb |-> su, limit |-> limit]
         /\ response' = find_recent_sales(all_records, su, limit)
    /\ UNCHANGED all_records

NextRecent ==
    \/ LoadRecord(SalesPool, MaxSales)
    \/ RecentSales

SpecRecent == Init /\ [][NextRecent]_vars

\* The same calls on shorter datasets, for the formulas that evaluate
\* calculate_estimate under several catalogs in every state.
NextQuality ==
    \/ LoadRecord(EstimatePool, MaxQualityRecords)
    \/ Estimate

SpecQuality == Init /\ [][NextQuality]_vars

\* One call of a parser on a token.
ParseInt ==
    /\ request = NoCall
    /\ \E value \in NumberTokens :
         /\ request' = [op |-> "parse_int", value |-> value]
         /\ response' = parse_int(value)
    /\ UNCHANGED all_records

ParseFloat ==
    /\ request = NoCall
    /\ \E value \in NumberTokens :
         /\ request' = [op |-> "parse_float", value |-> value]
         /\ response' = parse_float(value)
    /\ UNCHANGED all_records

\* One call of parse_price on a price string made of parts.
ParsePrice ==
    /\ request = NoCall
    /\ \E p \in PriceParts :
         /\ request' = [op |-> "parse_price", value |-> Some(PriceText(p)),
                        parts |-> Some(p)]
         /\ response' = parse_price(Some(PriceText(p)))
    /\ UNCHANGED all_records

\* One call of parse_price on another token.
ParsePriceToken ==
    /\ request = NoCall
    /\ \E value \in NoNumberTokens \cup OtherPriceTokens :
         /\ request' = [op |-> "parse_price", value |-> value, parts |-> None]
         /\ response' = parse_price(value)
    /\ UNCHANGED all_records

ParseLandSize ==
    /\ request = NoCall
    /\ \E value \in LandTokens :
         /\ request' = [op |-> "parse_land_size", value |-> value]
         /\ response' = parse_land_size(value)
    /\ UNCHANGED all_records

ParseDate ==
    /\ request = NoCall
    /\ \E value \in DateTokens :
         /\ request' = [op |-> "parse_date", value |-> value]
         /\ response' = parse_date(value)
    /\ UNCHANGED all_records

NextParse ==
    \/ ParseInt
    \/ ParseFloat
    \/ ParsePrice
    \/ ParsePriceToken
    \/ ParseLandSize
    \/ ParseDate

SpecParse == Init /\ [][NextParse]_vars

\* ------------------------------------------------- claims on the estimate

Estimated == request.op = "estimate"

Returned == Estimated /\ response.error = ""

\* The line of the breakdown with the label, if there is one.
HasLine(label) == \E i \in 1..Len(response.breakdown) : response.breakdown[i].label = label

LineValue(label) ==
    response.breakdown[CHOOSE i \in 1..Len(response.breakdown) :
                           response.breakdown[i].label = label].value

\* C1 (as claimed): calculate_estimate returns a result for every dataset and
\* every query, and the baseline is 0 when the dataset holds no priced record.
C1_NeverRaises ==
    Estimated =>
        /\ response.error = ""
        /\ (\A i \in 1..Len(all_records) : all_records[i].price = None)
              => LineValue("Comparable sales baseline") = RInt(0)

\* The parts of the estimate of a query, for the formulas.
Parts(records, q) ==
    LET c == comparables_of(records, q)
    IN  [base |-> base_price(records, c),
         multiplier |-> quality_multiplier(QUALITY_LEVELS, q.quality_choices),
         features |-> feature_bonus(q.selected_features),
         land |-> land_adjustment(c, q.land_size),
         bath |-> bathroom_bonus(c, q.bathrooms).value,
         park |-> parking_bonus(c, q.parking).value,
         age |-> age_adjustment(q.building_age)]

\* baseline * quality_multiplier + feature_bonus + land_adjustment
\*   + bathroom_bonus + parking_bonus + age_adjustment, as a fraction n/d.
SumOfParts(p) ==
    LET product == <<p.base[1] * p.multiplier[1], p.base[2] * p.multiplier[2]>>
        rest == RAdd(RAdd(RAdd(RAdd(RInt(p.features), p.land), p.bath),
                          p.park), RInt(p.age))
    IN  << product[1] * rest[2] + rest[1] * product[2], product[2] * rest[2] >>

ClaimedSum == SumOfParts(Parts(all_records, request.query))

\* C3: whenever calculate_estimate returns, the estimate is
\* max(0, baseline * multiplier + feature bonus + land adjustment + bathroom
\* bonus + parking bonus + age adjustment): never negative, and 0 when the sum
\* is negative.
C3_EstimateIsFlooredSum ==
    Returned =>
        LET sum == ClaimedSum
        IN  /\ response.estimate[1] >= 0
            /\ sum[1] < 0 => response.estimate = RInt(0)
            /\ sum[1] >= 0 =>
                 response.estimate[1] * sum[2] = sum[1] * response.estimate[2]

\* C3's case: a sum below zero, floored.
C3_Witness ==
    /\ Returned
    /\ ClaimedSum[1] < 0
    /\ Parts(all_records, request.query).base[1] > 0
    /\ response.estimate = RInt(0)

\* C3's other named case: the -18000 age adjustment on a zero baseline.
C3_WitnessAge ==
    /\ Returned
    /\ Parts(all_records, request.query).base = RInt(0)
    /\ Parts(all_records, request.query).age = -18000
    /\ response.estimate = RInt(0)

\* ------------------------------------------------- claims on the selector

Selected == request.op = "select"

\* The position of a loaded record in the dataset (a record is loaded once).
Position(r) == CHOOSE k \in 1..Len(all_records) : all_records[k] = r

\* The sequence holds exactly the records at the positions K, in dataset order.
InDatasetOrder(seq, K) ==
    /\ Len(seq) = Cardinality(K)
    /\ {seq[i] : i \in 1..Len(seq)} = {all_records[k] : k \in K}
    /\ \A i, j \in 1..Len(seq) : i < j => Position(seq[i]) < Position(seq[j])

SameSuburb(k, suburb) == lower(all_records[k].suburb) = lower(suburb)

\* The positions the claim selects, given the positions of the suburb's priced
\* records.
NarrowedByBedrooms(S, bedrooms) ==
    LET exact == {k \in S : all_records[k].bedrooms = bedrooms}
    IN  IF bedrooms # None /\ exact # {} THEN exact ELSE S

\* C4 (as claimed): select_comparables returns, in dataset order, the records
\* of the suburb whose price is present, narrowed to the exact bedroom matches
\* when there are any, and the empty list only when the suburb has no priced
\* record.
C4_SelectsPresentPrices ==
    Selected =>
        LET S == {k \in 1..Len(all_records) :
                    SameSuburb(k, request.suburb) /\ all_records[k].price # None}
        IN  /\ InDatasetOrder(response, NarrowedByBedrooms(S, request.bedrooms))
            /\ response = <<>> <=> S = {}

\* C4 (amended): the same, with "priced" read as the code reads it: a price
\* that is present and not zero.
C4_SelectsNonZeroPrices ==
    Selected =>
        LET S == {k \in 1..Len(all_records) :
                    /\ SameSuburb(k, request.suburb)
                    /\ all_records[k].price # None
                    /\ Val(all_records[k].price) # 0}
        IN  /\ InDatasetOrder(response, NarrowedByBedrooms(S, request.bedrooms))
            /\ response = <<>> <=> S = {}

\* C4's case: the suburb has an unpriced record and two priced ones, and the
\* bedroom count narrows the priced ones to one.
C4_Witness ==
    /\ Selected
    /\ request.bedrooms # None
    /\ Len(response) = 1
    /\ response[1].bedrooms = request.bedrooms
    /\ \E k \in 1..Len(all_records) :
         SameSuburb(k, request.suburb) /\ all_records[k].price = None
    /\ \E k \in 1..Len(all_records) :
         /\ SameSuburb(k, request.suburb)
         /\ Truthy(all_records[k].price)
         /\ all_records[k].bedrooms # request.bedrooms

\* ------------------------------------------------- claims on the baseline

\* The mean price of the records at the positions K.
MeanPriceAt(K) ==
    LET RECURSIVE Sum(_)
        Sum(T) == IF T = {} THEN 0
                  ELSE LET k == CHOOSE x \in T : TRUE
                       IN  Val(all_records[k].price) + Sum(T \ {k})
    IN  Rat(Sum(K), Cardinality(K))

MeanPriceOf(seq) ==
    Rat(SumSeq([i \in 1..Len(seq) |-> Val(seq[i].price)]), Len(seq))

PlainQuery(q) ==
    /\ q.quality_choices = <<>>
    /\ q.selected_features = <<>>
    /\ q.land_size = None
    /\ q.bathrooms = None
    /\ q.parking = None
    /\ q.building_age = None

\* The baseline the claim names, given the positions of the dataset's priced
\* records.
ClaimedBaseline(K) ==
    IF response.comparables # <<>> THEN MeanPriceOf(response.comparables)
    ELSE IF K # {} THEN MeanPriceAt(K)
    ELSE RInt(0)

\* C9 (as claimed): the baseline is the mean price of the selected
\* comparables, else of the dataset's records with a price, else 0; a query
\* with no ratings, features, land size, bathrooms, parking or age gets the
\* baseline as its estimate.
C9_BaselineOverPresentPrices ==
    Returned =>
        LET K == {k \in 1..Len(all_records) : all_records[k].price # None}
            baseline == LineValue("Comparable sales baseline")
        IN  /\ baseline = ClaimedBaseline(K)
            /\ PlainQuery(request.query) => response.estimate = baseline

\* C9 (amended): the same, the dataset's priced records being those whose
\* price is present and not zero.
C9_BaselineOverNonZeroPrices ==
    Returned =>
        LET K == {k \in 1..Len(all_records) :
                    all_records[k].price # None /\ Val(all_records[k].price) # 0}
            baseline == LineValue("Comparable sales baseline")
        IN  /\ baseline = ClaimedBaseline(K)
            /\ PlainQuery(request.query) =>
                 /\ response.estimate = baseline
                 /\ LineValue("Quality multiplier") = RInt(1)
                 /\ LineValue("Feature adjustments") = RInt(0)

\* C9's case: three 3-bedroom Kippax records priced 600000, 650000 and 700000,
\* a plain query for Kippax with 3 bedrooms, and the estimate 650000.
C9_Witness ==
    /\ Returned
    /\ Len(all_records) = 3
    /\ \A k \in 1..3 : /\ SameSuburb(k, Kippax)
                       /\ all_records[k].bedrooms = Some(3)
    /\ {all_records[k].price : k \in 1..3} = {Some(600000), Some(650000), Some(700000)}
    /\ request.query.suburb = kippax
    /\ request.query.bedrooms = Some(3)
    /\ PlainQuery(request.query)
    /\ LineValue("Comparable sales baseline") = RInt(650000)
    /\ LineValue("Quality multiplier") = RInt(1)
    /\ LineValue("Feature adjustments") = RInt(0)
    /\ response.estimate = RInt(650000)

\* C9's other case: no comparables, and the dataset's mean as the baseline.
C9_WitnessFallback ==
    /\ Returned
    /\ response.comparables = <<>>
    /\ LineValue("Comparable sales baseline")[1] > 0

\* --------------------------------------------- claims on the age adjustment

\* The table of the claim.
ClaimedAgeAdjustment(building_age) ==
    IF building_age = None THEN 0
    ELSE LET age == Val(building_age)
         IN  CASE age <= 5 -> 25000
               [] age >= 6 /\ age <= 15 -> 12000
               [] age >= 16 /\ age <= 24 -> 0
               [] age >= 25 /\ age <= 39 -> -9000
               [] age >= 40 -> -18000

\* C10: the age adjustment follows the table; its line is in the breakdown
\* exactly when it is not zero; with no other adjustment the estimate is the
\* baseline plus the feature bonus plus the age adjustment, floored at 0.
C10_AgeTable ==
    Returned =>
        LET q == request.query
            adjustment == ClaimedAgeAdjustment(q.building_age)
            baseline == LineValue("Comparable sales baseline")
            features == LineValue("Feature adjustments")
        IN  /\ HasLine("Building age adjustment") <=> adjustment # 0
            /\ HasLine("Building age adjustment") =>
                 LineValue("Building age adjustment") = RInt(adjustment)
            /\ (q.quality_choices = <<>> /\ q.land_size = None
                  /\ q.bathrooms = None /\ q.parking = None) =>
                 response.estimate =
                     RMax(RInt(0), RAdd(RAdd(baseline, features), RInt(adjustment)))

\* C10's case: baseline 650000, building_age 3, nothing else, estimate 675000.
C10_Witness ==
    /\ Returned
    /\ request.query.building_age = Some(3)
    /\ request.query.selected_features = <<>>
    /\ LineValue("Comparable sales baseline") = RInt(650000)
    /\ LineValue("Building age adjustment") = RInt(25000)
    /\ response.estimate = RInt(675000)

\* ------------------------------------------ claims on the quality multiplier

\* The catalog with the multiplier of its i-th level raised by d.
RaiseLevel(levels, i, d) ==
    [levels EXCEPT ![i] = [@ EXCEPT !.multiplier = RAdd(@, d)]]

\* The amounts a multiplier is raised by: 0.05 and 1.
RaiseSteps == { Rat(5, 100), RInt(1) }

\* The mean of the catalog multipliers of the recognised choices, 1 without any.
ClaimedMultiplier(quality_choices) ==
    LET R == {i \in 1..Len(quality_choices) :
                InCatalog(QUALITY_LEVELS, quality_choices[i].level)}
        RECURSIVE Sum(_)
        Sum(T) == IF T = {} THEN RInt(0)
                  ELSE LET i == CHOOSE x \in T : TRUE
                       IN  RAdd(Entry(QUALITY_LEVELS, quality_choices[i].level).multiplier,
                                Sum(T \ {i}))
    IN  IF R = {} THEN RInt(1) ELSE RMul(Sum(R), <<1, Cardinality(R)>>)

\* C5: raising the multiplier of any level of the catalog, every other input
\* fixed, never lowers the estimate (and never changes whether the call
\* returns); the effective multiplier is the mean of the multipliers of the
\* recognised selected levels, 1.0 when none is recognised, and the baseline is
\* never negative.
C5_MonotoneInMultiplier ==
    Estimated =>
        /\ \A i \in 1..Len(QUALITY_LEVELS), d \in RaiseSteps :
             LET raised == calculate_estimate(RaiseLevel(QUALITY_LEVELS, i, d),
                                              all_records, request.query)
             IN  /\ raised.error = response.error
                 /\ RLeq(response.estimate, raised.estimate)
        /\ response.error = "" =>
             /\ LineValue("Quality multiplier")
                  = ClaimedMultiplier(request.query.quality_choices)
             /\ LineValue("Comparable sales baseline")[1] >= 0

\* C5's case: a selected level whose raised multiplier raises the estimate.
C5_Witness ==
    /\ Returned
    /\ \E i \in 1..Len(QUALITY_LEVELS) :
         /\ \E j \in 1..Len(request.query.quality_choices) :
              request.query.quality_choices[j].level = QUALITY_LEVELS[i].id
         /\ RLess(response.estimate,
                  calculate_estimate(RaiseLevel(QUALITY_LEVELS, i, Rat(5, 100)),
                                     all_records, request.query).estimate)

\* C5's other case: the sum stays below zero under both catalogs, and the
\* estimate stays 0.
C5_WitnessFloored ==
    /\ Returned
    /\ ClaimedSum[1] < 0
    /\ \E j \in 1..Len(request.query.quality_choices) :
         InCatalog(QUALITY_LEVELS, request.query.quality_choices[j].level)

\* ---------------------------------------------------- claims on recent sales

RecentCalled == request.op = "recent"

Min(a, b) == IF a < b THEN a ELSE b

\* The result is made of records at the positions M, has min(limit, |M|)
\* entries in descending order of date (an undated record as datetime.min),
\* and leaves out no record of M dated later than one it returns.
MostRecentOf(M) ==
    /\ Len(response) = Min(request.limit, Cardinality(M))
    /\ \A i \in 1..Len(response) : \E k \in M : all_records[k] = response[i]
    /\ \A i, j \in 1..Len(response) : i # j => response[i] # response[j]
    /\ \A i \in 1..(Len(response) - 1) :
         DateKey(response[i]) >= DateKey(response[i + 1])
    /\ \A k \in M :
         (\A i \in 1..Len(response) : response[i] # all_records[k])
            => \A i \in 1..Len(response) :
                 DateKey(all_records[k]) <= DateKey(response[i])
    /\ \A i \in 1..Len(response) :
         response[i].date = None =>
            \A j \in 1..Len(response) : response[j].date # None => j < i

\* C8 (as claimed): find_recent_sales returns the records of the suburb, most
\* recent first, undated ones last, cut to the limit.
C8_RecentOfSuburb ==
    RecentCalled =>
        MostRecentOf({k \in 1..Len(all_records) : SameSuburb(k, request.suburb)})

\* C8 (amended): find_recent_sales returns the records of the suburb whose
\* price is present and not zero, most recent first, undated ones last, cut to
\* the limit; the call leaves the dataset as it was.
C8_RecentOfPricedSuburb ==
    /\ [](RecentCalled =>
            MostRecentOf({k \in 1..Len(all_records) :
                            /\ SameSuburb(k, request.suburb)
                            /\ all_records[k].price # None
                            /\ Val(all_records[k].price) # 0}))
    /\ [][RecentCalled' => all_records' = all_records]_vars

\* C8's case: five dated, priced records of the suburb, limit 3, and the three
\* most recent returned in descending order.
C8_Witness ==
    /\ RecentCalled
    /\ request.limit = 3
    /\ Len(all_records) = 5
    /\ \A k \in 1..5 : /\ SameSuburb(k, request.suburb)
                       /\ Truthy(all_records[k].price)
                       /\ all_records[k].date # None
    /\ Len(response) = 3
    /\ DateKey(response[1]) > DateKey(response[2])
    /\ DateKey(response[2]) > DateKey(response[3])
    /\ Cardinality({k \in 1..5 : DateKey(all_records[k]) >= DateKey(response[3])}) = 3
    /\ DateKey(all_records[1]) < DateKey(all_records[5])


\* ---------------------------------------------------- claims on the parsers

Parsers == {"parse_int", "parse_float", "parse_price", "parse_land_size", "parse_date"}

ParserCalled == request.op \in Parsers

\* C2: every field parser returns a typed value or no value for every token,
\* the empty, missing and non-numeric ones and those that denote infinity, nan
\* or a magnitude beyond the doubles included; no parser raises.
C2_ParsersNeverRaise == ParserCalled => response.error = ""

\* A price string made of parts was parsed.
PricePartsParsed == request.op = "parse_price" /\ request.parts # None

\* The number a price string's number part writes once its thousands
\* separators are dropped: its digits n and the count d of those after the
\* point, for n / 10^d.
NumericPart(number) ==
    LET notComma(c) == c # ","
        plain == SelectSeq(number, notComma)
        points == {i \in 1..Len(plain) : plain[i] = "."}
        notPoint(c) == c # "."
    IN  [n |-> BigFromDigits(DigitsOf(SelectSeq(plain, notPoint))),
         d |-> IF points = {} THEN 0 ELSE Len(plain) - Lowest(points)]

\* The response is the integer (n / 10^d) * unit; the numbers drawn make it a
\* whole number for every unit.
ReturnsTimes(numeric, unit) ==
    /\ response.error = ""
    /\ response.value # None
    /\ ~Val(response.value).neg
    /\ BigTimesPow10(Val(response.value).mag, numeric.d)
         = IF unit = 1 THEN numeric.n
           ELSE BigMulAdd(BigMulAdd(numeric.n, unit \div 1000, 0), 1000, 0)

\* C6: a price string made of a number and a unit suffix parses to the number
\* times 1,000,000 for "m" and "mil" and times 1,000 for "k", whatever the size
\* of the number and with a currency symbol, thousands separators, noise words
\* or a trailing "+" around it.
C6_SuffixGivesUnit ==
    PricePartsParsed /\ Val(request.parts).suffix # <<>> =>
        ReturnsTimes(NumericPart(Val(request.parts).number),
                     IF Val(request.parts).suffix = <<"k">> THEN 1000 ELSE 1000000)

\* n / 10^d < c
NumericBelow(numeric, c) == BigLess(numeric.n, BigTimesPow10(BigFromInt(c), numeric.d))

\* C7: a price string with no unit suffix parses to its first number n times
\* 1,000,000 when n < 10, times 1,000 when 10 <= n < 10,000 and to n itself from
\* 10,000 on; a token with nothing numeric in it parses to no value.
C7_UnsuffixedHeuristic ==
    /\ PricePartsParsed /\ Val(request.parts).suffix = <<>> =>
         LET numeric == NumericPart(Val(request.parts).number)
         IN  ReturnsTimes(numeric, IF NumericBelow(numeric, 10) THEN 1000000
                                   ELSE IF NumericBelow(numeric, 10000) THEN 1000
                                   ELSE 1)
    /\ request.op = "parse_price" /\ request.value \in NoNumberTokens =>
         response = Result(None)

\* ------------------------------------- claims on the query without a suburb

NoSuburbQuery == Returned /\ request.query.suburb = <<>>

\* The value of an adjustment in the breakdown: a zero adjustment has no line.
AdjustmentLine(label) == IF HasLine(label) THEN LineValue(label) ELSE RInt(0)

\* The figures of one field over the whole dataset, from the records that
\* have one.
DatasetFigures(field) ==
    LET has(r) == r[field] # None
        kept == SelectSeq(all_records, has)
    IN  [i \in 1..Len(kept) |-> Val(kept[i][field])]

\* Two fractions of the same value.
SameValue(x, y) == x[1] * y[2] = y[1] * x[2]

\* rate per unit of the given count above the mean of the figures, never
\* negative.
ClaimedBonus(given, figures, rate) ==
    IF RLess(mean(figures), RInt(given))
    THEN RMul(RSub(RInt(given), mean(figures)), RInt(rate))
    ELSE RInt(0)

\* C11 (as claimed): when the query gives no suburb, the adjustments are
\* computed against the full dataset: the land adjustment is (given land size
\* - mean land size of the dataset) * 180, and the bathroom and parking bonuses
\* are 8000 and 6000 per unit of the given count above the dataset's mean
\* count, never negative.
C11_NoSuburbUsesFullDataset ==
    NoSuburbQuery =>
        /\ (request.query.land_size # None /\ DatasetFigures("land_size") # <<>>)
              => SameValue(AdjustmentLine("Land size adjustment"),
                           RMul(RSub(RInt(Val(request.query.land_size)),
                                     mean(DatasetFigures("land_size"))),
                                RInt(180)))
        /\ (request.query.bathrooms # None /\ DatasetFigures("bathrooms") # <<>>)
              => SameValue(AdjustmentLine("Bathroom count adjustment"),
                           ClaimedBonus(Val(request.query.bathrooms),
                                        DatasetFigures("bathrooms"), 8000))
        /\ (request.query.parking # None /\ DatasetFigures("parking") # <<>>)
              => SameValue(AdjustmentLine("Parking adjustment"),
                           ClaimedBonus(Val(request.query.parking),
                                        DatasetFigures("parking"), 6000))

====
